---- MODULE Spec2Model ----
(***************************************************************************)
(* Model of src/src/models/service.py: the voice-activated servo service.  *)
(*                                                                         *)
(* State: the service instance's fields (commands, sensor, servo), the     *)
(* outcome of the last validate_config call, and one record per dispatch   *)
(* invocation (a do_command coroutine): its position, its locals, the      *)
(* collaborator calls it has issued so far and its result.                 *)
(*                                                                         *)
(* Coroutines are cut at their suspension points (await of the sensor,     *)
(* of the servo, of asyncio.sleep, of the sound coroutine); reconfigure    *)
(* and validate_config are synchronous and are one step each.              *)
(***************************************************************************)
EXTENDS Integers, Sequences, FiniteSets, TLC

\* ------------------------------------------------------------------ bounds
MaxInv == 2          \* do_command coroutines that can exist at a time
MaxCalls == 2        \* do_command calls in one behaviour
MaxReconf == 1       \* reconfigure calls after construction

InvIds == 1..MaxInv

\* ------------------------------------------------------- program constants
\* Angles are protobuf doubles; the model keeps them as a count of halves
\* (Denom units per degree) so that fractional configured values exist.
Denom == 2
MIN_ANGLE == 0
MAX_ANGLE == 180
SLEEP_SECONDS == 1
VOLUME_PERCENT == 90

\* ------------------------------------------------------------------ strings
\* A string is a sequence of one-character strings.
Lower(ch) ==
    CASE ch = "A" -> "a"
      [] ch = "B" -> "b"
      [] OTHER -> ch

\* str.lower()
LowerStr(s) == [i \in 1..Len(s) |-> Lower(s[i])]

\* s[i:i+len(sub)] == sub, i counted from 1
MatchAt(sub, s, i) ==
    /\ i + Len(sub) - 1 <= Len(s)
    /\ \A j \in 1..Len(sub) : s[i + j - 1] = sub[j]

RECURSIVE FindFrom(_, _, _)
\* str.find from position i: the first position where sub occurs, 0 if none
FindFrom(sub, s, i) ==
    IF i + Len(sub) - 1 > Len(s) THEN 0
    ELSE IF MatchAt(sub, s, i) THEN i
    ELSE FindFrom(sub, s, i + 1)

\* sub in s  (the empty string is in every string)
Contains(sub, s) == FindFrom(sub, s, 1) # 0

\* Optional text: None or a str.
None == [some |-> FALSE, text |-> <<>>]
Str(t) == [some |-> TRUE, text |-> t]

\* Python truthiness of an optional string
Truthy(v) == v.some /\ Len(v.text) > 0

\* ------------------------------------------------------- protobuf values
Num(n) == [kind |-> "number", num |-> n, values |-> <<>>]
NotNum == [kind |-> "string", num |-> 0, values |-> <<>>]
List(vs) == [kind |-> "list", num |-> 0, values |-> vs]
NotList == [kind |-> "string", num |-> 0, values |-> <<>>]

\* Value.number_value: 0.0 unless the value holds a number
number_value(v) == IF v.kind = "number" THEN v.num ELSE 0

\* Value.list_value.values: empty unless the value holds a list
list_values(v) == IF v.kind = "list" THEN v.values ELSE <<>>

\* int(x) of a float: truncation toward zero
int(n) == IF n >= 0 THEN n \div Denom ELSE -((-n) \div Denom)

\* Mutant of InRange: the lower bound is not checked
InRangeNoLowerBound(n) == n <= MAX_ANGLE * Denom

\* 0 <= angle <= 180
InRange(n) == MIN_ANGLE * Denom <= n /\ n <= MAX_ANGLE * Denom


\* ------------------------------------------------------------ input sets
\* Phrases and texts over the characters a, b, A, B, x.
P_a == <<"a">>
P_ab == <<"a", "b">>
P_B == <<"B">>
P_empty == <<>>

Texts == { <<"A", "b">>, <<"b">>, <<"x">> }

\* One field of the commands struct: phrase -> value (a list of values)
Cmd(p, v) == [phrase |-> p, value |-> v]

\* The commands structs offered as configuration, in field iteration order.
RawCommands ==
    { << Cmd(P_a, List(<< Num(90 * Denom), Num(0) >>)) >>,
      << Cmd(P_a, List(<< Num(90 * Denom) >>)),
         Cmd(P_ab, List(<< Num(180 * Denom), Num(45 * Denom + 1) >>)) >>,
      << Cmd(P_B, List(<< NotNum >>)), Cmd(P_empty, List(<< Num(10 * Denom) >>)) >>,
      << Cmd(P_ab, List(<< Num(180 * Denom + 1) >>)) >>,
      << Cmd(P_a, List(<< Num(-Denom - 1) >>)) >>,
      << Cmd(P_a, List(<< >>)) >>,
      << Cmd(P_B, NotList) >> }

Sensors == {"s1", "s2"}
Servos == {"m1", "m2"}

\* config.attributes.fields: the names present, and the three values
Config(fs, s, m, cs) == [fields |-> fs, sensor |-> s, servo |-> m, commands |-> cs]

AllFields == {"sensor", "servo", "commands"}

Configs ==
    { Config(AllFields, "s1", "m1", cs) : cs \in RawCommands }
    \cup { Config(AllFields, "s2", "m2", << Cmd(P_ab, List(<< Num(20 * Denom) >>)) >>) }
    \cup { Config(AllFields \ {f}, "s1", "m1", << Cmd(P_a, List(<< Num(0) >>)) >>)
             : f \in AllFields }

\* The dependency maps offered to reconfigure: the names they hold.
DepMaps == { Sensors \cup Servos, {"s1", "m1"}, {} }

\* do_command's command mapping: the two keys it reads
Request(f, l) == [force_command |-> f, listen_for_command |-> l]

Requests ==
    { Request(f, l) : f \in {None, Str(<<>>)} \cup { Str(t) : t \in Texts },
                      l \in BOOLEAN }

\* What the sensor's readings hold under "heard" (None: no such entry)
Heard == {None, Str(<<>>)} \cup { Str(t) : t \in Texts }

\* ------------------------------------------------------------------- state
VARIABLES
    commands,     \* self.commands: sequence of [phrase, angles], insertion order
    sensor,       \* self.sensor: the resource bound
    servo,        \* self.servo: the resource bound
    validated,    \* the last validate_config call: its config and outcome
    nreconf,      \* reconfigure calls so far (bounded by MaxReconf)
    ncalls,       \* do_command calls so far (bounded by MaxCalls)
    inv,          \* the do_command coroutines, by slot
    moves         \* the move calls the servos received, in order, from
                  \* the coroutines the slots hold

vars == <<commands, sensor, servo, validated, nreconf, ncalls, inv, moves>>


\* ------------------------------------------------------- validate_config
RECURSIVE AnglesError(_, _)
\* lines 82-85: the first angle outside [0, 180] raises
AnglesError(vs, j) ==
    IF j > Len(vs) THEN ""
    ELSE IF ~InRange(number_value(vs[j])) THEN "must be integers between 0 and 180"
    ELSE AnglesError(vs, j + 1)

RECURSIVE CommandsError(_, _)
\* lines 72-85: the first phrase with an empty list or a bad angle raises.
\* (isinstance(phrase, str) holds of every key of a protobuf struct.)
CommandsError(cs, i) ==
    IF i > Len(cs) THEN ""
    ELSE IF Len(list_values(cs[i].value)) = 0 THEN "cannot be empty"
    ELSE IF AnglesError(list_values(cs[i].value), 1) # ""
         THEN AnglesError(list_values(cs[i].value), 1)
    ELSE CommandsError(cs, i + 1)

\* The error validate_config raises on config c ("" when it raises none)
ValidationError(c) ==
    IF "sensor" \notin c.fields THEN "sensor is required"
    ELSE IF "servo" \notin c.fields THEN "servo is required"
    ELSE IF "commands" \notin c.fields THEN "commands is required"
    ELSE CommandsError(c.commands, 1)

\* validate_config(config): raises ValueError, or returns
\* ([sensor_name, servo_name], [])
validate_config(c) ==
    IF ValidationError(c) # ""
    THEN [ok |-> FALSE, error |-> ValidationError(c), required |-> <<>>, optional |-> <<>>]
    ELSE [ok |-> TRUE, error |-> "", required |-> <<c.sensor, c.servo>>, optional |-> <<>>]

\* ----------------------------------------------------------- reconfigure
\* lines 119-121: angles.append(int(angle_value.number_value))
ParseAngles(vs) == [j \in 1..Len(vs) |-> int(number_value(vs[j]))]

\* d[k] = v on an insertion-ordered dict
DictSet(d, k, v) ==
    IF \E i \in 1..Len(d) : d[i].phrase = k
    THEN [i \in 1..Len(d) |-> IF d[i].phrase = k THEN [phrase |-> k, angles |-> v] ELSE d[i]]
    ELSE Append(d, [phrase |-> k, angles |-> v])

RECURSIVE ParseCommands(_, _, _)
\* lines 115-122: self.commands = {} and then one entry per field, in order
ParseCommands(cs, i, d) ==
    IF i > Len(cs) THEN d
    ELSE ParseCommands(cs, i + 1,
                       DictSet(d, cs[i].phrase, ParseAngles(list_values(cs[i].value))))

\* lines 106-112: a binding is replaced only if the map holds the name
Bind(old, name, deps) == IF name \in deps THEN name ELSE old

\* dict operations on self.commands
Keys(d) == [i \in 1..Len(d) |-> d[i].phrase]
HasKey(d, k) == \E i \in 1..Len(d) : d[i].phrase = k
Lookup(d, k) == d[CHOOSE i \in 1..Len(d) : d[i].phrase = k].angles


\* ------------------------------------------------------------ invocations
\* What a do_command call gave its caller.
Pending == [kind |-> "pending", keys |-> {}, status |-> "",
            voice_commands |-> <<>>, heard |-> None]
ReturnedNone == [kind |-> "None", keys |-> {},
                 status |-> "", voice_commands |-> <<>>, heard |-> None]
Mapping(ks, st, vc, h) == [kind |-> "mapping", keys |-> ks, status |-> st,
                           voice_commands |-> vc, heard |-> h]

\* One call on a collaborator: k is the position of the phrase in the loop
\* of line 149 (0 outside the loop), target the resource called.
Ev(kind, k, target, arg) == [kind |-> kind, k |-> k, target |-> target, arg |-> arg]

Idle == [pc |-> "idle",
         request |-> Request(None, FALSE),
         readings |-> None,
         dict |-> <<>>,           \* the dict object whose keys line 149 iterates
         keys |-> <<>>,           \* the keys view iterated by line 149
         epoch |-> 0,             \* nreconf when that view was taken
         ki |-> 0,                \* position of `phrase` in it
         angles |-> <<>>,
         ai |-> 0,                \* position of `angle` in angles
         commands_heard |-> <<>>,
         sound_promise |-> "none", \* none, pending (created, not run), done
         sound_status |-> "",
         result |-> Pending,
         failure |-> "",
         log |-> <<>>]

\* Mutant of PhraseMatches: the comparison without .lower()
PhraseMatchesCaseSensitive(phrase, readings) == Contains(phrase, readings)

\* line 150: phrase.lower() in readings.lower()
PhraseMatches(phrase, readings) == Contains(LowerStr(phrase), LowerStr(readings))

RECURSIVE NextMatch(_, _, _)
\* The loop of line 149 from position k on: the position of the next phrase
\* that passes line 150, Len(keys) + 1 when the loop ends.
NextMatch(keys, readings, k) ==
    IF k > Len(keys) THEN k
    ELSE IF PhraseMatches(keys[k], readings) THEN k
    ELSE NextMatch(keys, readings, k + 1)

\* Mutant of Report: the test of line 159 is off by one
ReportOffByOne(commands_heard, readings) ==
    IF Len(commands_heard) > 1
    THEN Mapping({"status", "voice_commands", "heard"}, "voice commands heard",
                 commands_heard, readings)
    ELSE Mapping({"status", "heard"}, "no voice commands heard", <<>>, readings)

\* lines 159-162
Report(commands_heard, readings) ==
    IF Len(commands_heard) > 0
    THEN Mapping({"status", "voice_commands", "heard"}, "voice commands heard",
                 commands_heard, readings)
    ELSE Mapping({"status", "heard"}, "no voice commands heard", <<>>, readings)

\* Mutant of IssueMove: every move of a phrase goes to its first angle
IssueMoveFirstAngle(r) ==
    [r EXCEPT !.pc = "moving",
              !.log = Append(@, Ev("move", r.ki, servo, r.angles[1]))]

\* line 154: await self.servo.move(angle), the call being issued
IssueMove(r) ==
    [r EXCEPT !.pc = "moving",
              !.log = Append(@, Ev("move", r.ki, servo, r.angles[r.ai]))]

\* lines 149-153 and 159-162: continue the loop over the phrases at position
\* k, up to the next suspension point or the return.
Advance(r, k) ==
    LET n == NextMatch(r.keys, r.readings.text, k) IN
    IF n > Len(r.keys)
    THEN [r EXCEPT !.pc = "done", !.ki = n,
                   !.result = Report(r.commands_heard, r.readings)]
    ELSE IF ~HasKey(commands, r.keys[n])
    THEN \* line 152 raises KeyError; the coroutine of line 151 never runs
         [r EXCEPT !.pc = "failed", !.ki = n, !.failure = "KeyError",
                   !.sound_promise = "pending"]
    ELSE LET r1 == [r EXCEPT !.ki = n, !.sound_promise = "pending",
                             !.angles = Lookup(commands, r.keys[n]), !.ai = 1]
         IN  IF Len(r1.angles) > 0 THEN IssueMove(r1)
             ELSE [r1 EXCEPT !.pc = "await_sound"]

\* lines 144-162, up to the first suspension point
handle_readings(r, readings) ==
    IF readings \in {None, Str(<<>>)}
    THEN [r EXCEPT !.pc = "done", !.readings = readings,
                   !.result = Mapping({"status"}, "no voice command heard", <<>>, None)]
    ELSE Advance([r EXCEPT !.readings = readings, !.dict = commands,
                           !.keys = Keys(commands),
                           !.epoch = nreconf, !.commands_heard = <<>>], 1)

\* The ways the two subprocesses of play_sound can end
AudioOutcomes == {"ok", "volume_fails", "play_fails"}

\* Mutant of play_sound: no try/except, a failing subprocess raises
play_sound_raising(outcome) ==
    [events |-> IF outcome = "volume_fails"
                THEN << Ev("set_volume_failed", 0, "amixer", VOLUME_PERCENT) >>
                ELSE << Ev("set_volume", 0, "amixer", VOLUME_PERCENT),
                        Ev(IF outcome = "ok" THEN "play" ELSE "play_failed", 0, "aplay", 1) >>,
     status |-> IF outcome = "ok" THEN "success" ELSE "",
     raised |-> outcome # "ok"]

\* lines 164-182: the audio commands run, the value returned, and whether an
\* exception leaves play_sound
play_sound(outcome) ==
    [events |-> CASE outcome = "ok" ->
                       << Ev("set_volume", 0, "amixer", VOLUME_PERCENT),
                          Ev("play", 0, "aplay", 1) >>
                  [] outcome = "volume_fails" ->
                       << Ev("set_volume_failed", 0, "amixer", VOLUME_PERCENT) >>
                  [] OTHER ->
                       << Ev("set_volume", 0, "amixer", VOLUME_PERCENT),
                          Ev("play_failed", 0, "aplay", 1) >>,
     status |-> IF outcome = "ok" THEN "success" ELSE "error",
     raised |-> FALSE]

\* ---------------------------------------------------------------- actions
Init ==
    \E c \in Configs :
        /\ validate_config(c).ok
        /\ validated = [config |-> c, outcome |-> validate_config(c)]
        /\ commands = ParseCommands(c.commands, 1, <<>>)
        /\ sensor = c.sensor
        /\ servo = c.servo
        /\ nreconf = 0
        /\ ncalls = 0
        /\ inv = [i \in InvIds |-> Idle]
        /\ moves = <<>>

\* validate_config, lines 44-88: called on every new configuration
ValidateConfig(c) ==
    /\ nreconf < MaxReconf
    /\ validated' = [config |-> c, outcome |-> validate_config(c)]
    /\ UNCHANGED <<commands, sensor, servo, nreconf, ncalls, inv, moves>>

\* Mutant of reconfigure: line 115 is missing, the new phrases are added to
\* the table that is already there
reconfigure_merging(deps) ==
    /\ nreconf < MaxReconf
    /\ validated.outcome.ok
    /\ LET c == validated.config IN
        /\ sensor' = Bind(sensor, c.sensor, deps)
        /\ servo' = Bind(servo, c.servo, deps)
        /\ commands' = ParseCommands(c.commands, 1, commands)
    /\ nreconf' = nreconf + 1
    /\ UNCHANGED <<validated, ncalls, inv, moves>>

\* reconfigure, lines 90-127: called with a configuration that passed
\* validate_config
reconfigure(deps) ==
    /\ nreconf < MaxReconf
    /\ validated.outcome.ok
    /\ LET c == validated.config IN
        /\ sensor' = Bind(sensor, c.sensor, deps)
        /\ servo' = Bind(servo, c.servo, deps)
        /\ commands' = ParseCommands(c.commands, 1, <<>>)
    /\ nreconf' = nreconf + 1
    /\ UNCHANGED <<validated, ncalls, inv, moves>>

\* Mutant of Received: the move is not awaited but scheduled, and reaches
\* the servo ahead of the moves scheduled before it
ReceivedAhead(base, i) ==
    IF inv'[i].pc = "moving"
    THEN << [inv |-> i,
             target |-> inv'[i].log[Len(inv'[i].log)].target,
             angle |-> inv'[i].log[Len(inv'[i].log)].arg] >> \o base
    ELSE base

\* line 154 seen from the servo: the step of coroutine i ended in a move
\* call exactly when it left the coroutine at "moving"
Received(base, i) ==
    IF inv'[i].pc = "moving"
    THEN Append(base, [inv |-> i,
                       target |-> inv'[i].log[Len(inv'[i].log)].target,
                       angle |-> inv'[i].log[Len(inv'[i].log)].arg])
    ELSE base

\* The received moves without those of the coroutine slot i held before
OfOthers(ms, i) ==
    LET NotOf(m) == m.inv # i IN SelectSeq(ms, NotOf)

\* A coroutine that has been started and has neither returned nor raised
InFlight(i) == inv[i].pc \notin {"idle", "done", "failed"}

\* do_command, lines 129-142, up to its first suspension point. The new
\* coroutine takes the first slot that holds none in flight.
do_command(i, req) ==
    /\ ncalls < MaxCalls
    /\ ~InFlight(i)
    /\ \A j \in InvIds : j < i => InFlight(j)
    /\ LET r == [Idle EXCEPT !.request = req] IN
       inv' = [inv EXCEPT ![i] =
           IF Truthy(req.force_command) THEN handle_readings(r, req.force_command)
           ELSE IF req.listen_for_command
           THEN [r EXCEPT !.pc = "get_readings",
                          !.log = Append(@, Ev("get_readings", 0, sensor, 0))]
           ELSE [r EXCEPT !.pc = "done", !.result = ReturnedNone]]
    /\ moves' = Received(OfOthers(moves, i), i)
    /\ ncalls' = ncalls + 1
    /\ UNCHANGED <<commands, sensor, servo, validated, nreconf>>

\* line 141 returns; line 142
GetReadingsReturn(i, heard) ==
    /\ inv[i].pc = "get_readings"
    /\ inv' = [inv EXCEPT ![i] = handle_readings(inv[i], heard)]
    /\ moves' = Received(moves, i)
    /\ UNCHANGED <<commands, sensor, servo, validated, nreconf, ncalls>>

\* line 141 raises
GetReadingsFail(i) ==
    /\ inv[i].pc = "get_readings"
    /\ inv' = [inv EXCEPT ![i] = [@ EXCEPT !.pc = "failed", !.failure = "SensorError"]]
    /\ UNCHANGED <<commands, sensor, servo, validated, nreconf, ncalls, moves>>

\* line 154 returns; line 155 suspends
MoveReturn(i) ==
    /\ inv[i].pc = "moving"
    /\ inv' = [inv EXCEPT ![i] =
           [@ EXCEPT !.pc = "sleeping",
                     !.log = @ \o << Ev("move_done", inv[i].ki, "", inv[i].angles[inv[i].ai]),
                                     Ev("sleep", inv[i].ki, "", SLEEP_SECONDS) >>]]
    /\ UNCHANGED <<commands, sensor, servo, validated, nreconf, ncalls, moves>>

\* Mutant of MoveFail: the exception is caught and the loop goes on
MoveFailSwallowed(i) ==
    /\ inv[i].pc = "moving"
    /\ inv' = [inv EXCEPT ![i] =
           [@ EXCEPT !.pc = "sleeping",
                     !.log = @ \o << Ev("move_failed", inv[i].ki, "", inv[i].angles[inv[i].ai]),
                                     Ev("sleep", inv[i].ki, "", SLEEP_SECONDS) >>]]
    /\ UNCHANGED <<commands, sensor, servo, validated, nreconf, ncalls, moves>>

\* line 154 raises: nothing in handle_readings or do_command catches it
MoveFail(i) ==
    /\ inv[i].pc = "moving"
    /\ inv' = [inv EXCEPT ![i] =
           [@ EXCEPT !.pc = "failed", !.failure = "ActuationError",
                     !.log = Append(@, Ev("move_failed", inv[i].ki, "",
                                          inv[i].angles[inv[i].ai]))]]
    /\ UNCHANGED <<commands, sensor, servo, validated, nreconf, ncalls, moves>>

\* Mutant of SleepEnd: after the last angle the phrase is recorded and the
\* loop goes on to the next phrase with the sound never joined
SleepEndNoJoin(i) ==
    /\ inv[i].pc = "sleeping"
    /\ LET r == [inv[i] EXCEPT !.log = Append(@, Ev("sleep_done", inv[i].ki, "", SLEEP_SECONDS))]
       IN inv' = [inv EXCEPT ![i] =
              IF r.ai < Len(r.angles) THEN IssueMove([r EXCEPT !.ai = @ + 1])
              ELSE Advance([r EXCEPT !.commands_heard = Append(@, r.keys[r.ki])],
                           r.ki + 1)]
    /\ moves' = Received(moves, i)
    /\ UNCHANGED <<commands, sensor, servo, validated, nreconf, ncalls>>

\* Mutant of SleepEnd: the loop of line 153 is left after its first pass
SleepEndFirstAngleOnly(i) ==
    /\ inv[i].pc = "sleeping"
    /\ inv' = [inv EXCEPT ![i] =
           [@ EXCEPT !.pc = "await_sound",
                     !.log = Append(@, Ev("sleep_done", inv[i].ki, "", SLEEP_SECONDS))]]
    /\ moves' = Received(moves, i)
    /\ UNCHANGED <<commands, sensor, servo, validated, nreconf, ncalls>>

\* line 155 returns; line 156; then the next angle (line 153) or line 157
SleepEnd(i) ==
    /\ inv[i].pc = "sleeping"
    /\ LET r == [inv[i] EXCEPT !.log = Append(@, Ev("sleep_done", inv[i].ki, "", SLEEP_SECONDS))]
       IN inv' = [inv EXCEPT ![i] =
              IF r.ai < Len(r.angles) THEN IssueMove([r EXCEPT !.ai = @ + 1])
              ELSE [r EXCEPT !.pc = "await_sound"]]
    /\ moves' = Received(moves, i)
    /\ UNCHANGED <<commands, sensor, servo, validated, nreconf, ncalls>>

\* Mutant of AwaitSound: a phrase is performed once, line 158 also deletes
\* it from self.commands
AwaitSoundConsuming(i, outcome) ==
    /\ inv[i].pc = "await_sound"
    /\ LET s == play_sound(outcome)
           r == [inv[i] EXCEPT
                   !.log = @ \o [j \in 1..Len(s.events) |->
                                    [s.events[j] EXCEPT !.k = inv[i].ki]]
                             \o << Ev("sound_joined", inv[i].ki, "", 0) >>,
                   !.sound_promise = "done",
                   !.sound_status = s.status]
           NotPerformed(c) == c.phrase # inv[i].keys[inv[i].ki]
       IN /\ inv' = [inv EXCEPT ![i] =
                 Advance([r EXCEPT !.commands_heard = Append(@, r.keys[r.ki])],
                         r.ki + 1)]
          /\ commands' = SelectSeq(commands, NotPerformed)
    /\ moves' = Received(moves, i)
    /\ UNCHANGED <<sensor, servo, validated, nreconf, ncalls>>

\* line 157: await sound_promise runs play_sound, which has no suspension
\* point of its own; then line 158 and the loop goes on. The log gets the
\* audio commands and then the point where line 157 is passed.
AwaitSound(i, outcome) ==
    /\ inv[i].pc = "await_sound"
    /\ LET s == play_sound(outcome)
           r == [inv[i] EXCEPT
                   !.log = @ \o [j \in 1..Len(s.events) |->
                                    [s.events[j] EXCEPT !.k = inv[i].ki]]
                             \o << Ev("sound_joined", inv[i].ki, "", 0) >>,
                   !.sound_promise = "done",
                   !.sound_status = s.status]
       IN inv' = [inv EXCEPT ![i] =
              IF s.raised
              THEN [r EXCEPT !.pc = "failed", !.failure = "AudioError"]
              ELSE Advance([r EXCEPT !.commands_heard = Append(@, r.keys[r.ki])],
                           r.ki + 1)]
    /\ moves' = Received(moves, i)
    /\ UNCHANGED <<commands, sensor, servo, validated, nreconf, ncalls>>

\* The caller awaits each do_command before it issues the next one.
Quiescent == \A j \in InvIds : ~InFlight(j)

Next ==
    \/ \E c \in Configs : ValidateConfig(c)
    \/ \E deps \in DepMaps : reconfigure(deps)
    \/ \E i \in InvIds, req \in Requests : Quiescent /\ do_command(i, req)
    \/ \E i \in InvIds, h \in Heard : GetReadingsReturn(i, h)
    \/ \E i \in InvIds : GetReadingsFail(i)
    \/ \E i \in InvIds : MoveReturn(i)
    \/ \E i \in InvIds : MoveFail(i)
    \/ \E i \in InvIds : SleepEnd(i)
    \/ \E i \in InvIds, o \in AudioOutcomes : AwaitSound(i, o)

Spec == Init /\ [][Next]_vars

\* ------------------------------------------------ collaborators that answer
\* The service with a caller that awaits each call, collaborators that
\* always answer (with a value or with an exception) and an event loop that
\* runs every coroutine that can go on.
LiveConfigs ==
    { Config(AllFields, "s1", "m1",
             << Cmd(P_a, List(<< Num(90 * Denom) >>)),
                Cmd(P_ab, List(<< Num(180 * Denom), Num(45 * Denom + 1) >>)) >>),
      Config(AllFields, "s1", "m1", << Cmd(P_a, List(<< Num(90 * Denom), Num(0) >>)) >>) }

InitLive ==
    \E c \in LiveConfigs :
        /\ validate_config(c).ok
        /\ validated = [config |-> c, outcome |-> validate_config(c)]
        /\ commands = ParseCommands(c.commands, 1, <<>>)
        /\ sensor = c.sensor
        /\ servo = c.servo
        /\ nreconf = 0
        /\ ncalls = 0
        /\ inv = [i \in InvIds |-> Idle]
        /\ moves = <<>>

\* The event loop resumes coroutine i once what it awaits has completed:
\* the sensor's answer (line 141), the servo's (line 154), the end of the
\* sleep (line 155); play_sound (line 157) runs to its end without
\* suspending.
Resume(i) ==
    \/ \E h \in Heard : GetReadingsReturn(i, h)
    \/ GetReadingsFail(i)
    \/ MoveReturn(i)
    \/ MoveFail(i)
    \/ SleepEnd(i)
    \/ \E o \in AudioOutcomes : AwaitSound(i, o)

NextLive ==
    \/ \E c \in LiveConfigs : ValidateConfig(c)
    \/ \E deps \in DepMaps : reconfigure(deps)
    \/ \E i \in InvIds, req \in Requests : Quiescent /\ do_command(i, req)
    \/ \E i \in InvIds : Resume(i)

SpecLive == InitLive /\ [][NextLive]_vars /\ \A i \in InvIds : WF_vars(Resume(i))

\* -------------------------------------------------- concurrent invocations
\* The service between two reconfigurations, with callers that do not wait
\* for each other: do_command coroutines interleave at their await points
\* (lines 141, 154, 155) on the one event loop.
ConcConfigs ==
    { Config(AllFields, "s1", "m1", << Cmd(P_a, List(<< Num(90 * Denom), Num(0) >>)) >>),
      Config(AllFields, "s2", "m2", << Cmd(P_ab, List(<< Num(20 * Denom) >>)) >>) }

ConcRequests == { Request(Str(<<"A", "b">>), FALSE), Request(None, TRUE) }

ConcHeard == { None, Str(<<"A", "b">>) }

InitConc ==
    \E c \in ConcConfigs :
        /\ validate_config(c).ok
        /\ validated = [config |-> c, outcome |-> validate_config(c)]
        /\ commands = ParseCommands(c.commands, 1, <<>>)
        /\ sensor = c.sensor
        /\ servo = c.servo
        /\ nreconf = 0
        /\ ncalls = 0
        /\ inv = [i \in InvIds |-> Idle]
        /\ moves = <<>>

NextConc ==
    \/ \E i \in InvIds, req \in ConcRequests : do_command(i, req)
    \/ \E i \in InvIds, h \in ConcHeard : GetReadingsReturn(i, h)
    \/ \E i \in InvIds : GetReadingsFail(i)
    \/ \E i \in InvIds : MoveReturn(i)
    \/ \E i \in InvIds : MoveFail(i)
    \/ \E i \in InvIds : SleepEnd(i)
    \/ \E i \in InvIds, o \in AudioOutcomes : AwaitSound(i, o)

SpecConc == InitConc /\ [][NextConc]_vars


\* ================================================================= claims
\* Helpers of the properties below.
IsPrefix(a, b) == Len(a) <= Len(b) /\ \A j \in 1..Len(a) : a[j] = b[j]

\* The angles of the moves issued for the phrase at position k, in order
AnglesMoved(log, k) ==
    LET IsMoveOfK(e) == e.kind = "move" /\ e.k = k
        ms == SelectSeq(log, IsMoveOfK)
    IN  [j \in 1..Len(ms) |-> ms[j].arg]

\* Every move issued, in order
AllMoves(log) ==
    LET IsMove(e) == e.kind = "move" IN SelectSeq(log, IsMove)

AudioKinds == {"set_volume", "set_volume_failed", "play", "play_failed"}

\* Line 157 has been passed for the phrase at position k
Joined(log, k) == \E h \in 1..Len(log) : log[h].kind = "sound_joined" /\ log[h].k = k

\* p occurs in t as a contiguous run of characters
SubstringOf(p, t) ==
    \E a \in 0..Len(t) : \E b \in a..Len(t) : SubSeq(t, a + 1, b) = p

\* p matches t without regard to case
MatchesIgnoringCase(p, t) == SubstringOf(LowerStr(p), LowerStr(t))

\* The phrases of keys that match t, in the order of keys
MatchList(keys, t) ==
    LET Hit(p) == MatchesIgnoringCase(p, t) IN SelectSeq(keys, Hit)

NoDuplicates(q) == \A a, b \in 1..Len(q) : q[a] = q[b] => a = b

\* The voice_commands entry of a result (empty when the key is absent)
VoiceCommands(res) == IF "voice_commands" \in res.keys THEN res.voice_commands ELSE <<>>

Returned(i) == inv[i].pc = "done"
Failed(i) == inv[i].pc = "failed"

\* C1: for every dispatch of a matched phrase, the audio cue (set volume,
\* then play) is started before the first actuator move of that phrase is
\* issued, and its completion is awaited only after the last move of the
\* phrase has finished.
C1_CueStartedBeforeFirstMove ==
    \A i \in InvIds :
        LET L == inv[i].log IN
        /\ \A j \in 1..Len(L) :
              L[j].kind = "move" =>
                  \E h \in 1..(j - 1) :
                      L[h].k = L[j].k /\ L[h].kind \in {"set_volume", "set_volume_failed"}
        /\ \A j \in 1..Len(L) :
              L[j].kind = "sound_joined" =>
                  \A h \in 1..Len(L) :
                      (L[h].k = L[j].k /\ L[h].kind \in {"move", "move_done"}) => h < j

\* C2: for every matched phrase, handle_readings issues exactly one move per
\* configured angle, in the configured order; and between two consecutive
\* moves of one invocation the earlier move has returned and the settle
\* delay after it has started and ended. The moves of the phrase in progress
\* are the first ai entries of its angle list; the moves of a phrase whose
\* processing is complete are its angle list in the table, reconfiguration
\* during the invocation apart.
C2_OneMovePerAngleInOrder ==
    \A i \in InvIds :
        LET r == inv[i]
            L == r.log
        IN
        /\ \A k \in 1..Len(r.keys) :
              LET mv == AnglesMoved(L, k) IN
              /\ k > r.ki => mv = <<>>
              /\ ~MatchesIgnoringCase(r.keys[k], r.readings.text) => mv = <<>>
              /\ (k = r.ki /\ r.failure # "KeyError") =>
                    /\ IsPrefix(mv, r.angles)
                    /\ r.pc \in {"moving", "sleeping"} => Len(mv) = r.ai
                    /\ r.pc = "await_sound" => mv = r.angles
              /\ (Joined(L, k) /\ r.epoch = nreconf) =>
                    mv = Lookup(commands, r.keys[k])
        /\ \A j1, j2 \in 1..Len(L) :
              (j1 < j2 /\ L[j1].kind = "move" /\ L[j2].kind = "move") =>
                  \E a, b, c \in (j1 + 1)..(j2 - 1) :
                      /\ a < b /\ b < c
                      /\ L[a].kind = "move_done" /\ L[a].k = L[j1].k
                      /\ L[b].kind = "sleep" /\ L[b].arg = SLEEP_SECONDS
                      /\ L[c].kind = "sleep_done"

\* C2 witness: a dispatch has returned after moving through a two-angle
\* sequence with distinct angles, with no reconfiguration on the way.
C2_Witness ==
    \E i \in InvIds :
        /\ Returned(i)
        /\ inv[i].epoch = nreconf
        /\ \E k \in 1..Len(inv[i].keys) :
              /\ Joined(inv[i].log, k)
              /\ Len(AnglesMoved(inv[i].log, k)) = 2
              /\ AnglesMoved(inv[i].log, k)[1] # AnglesMoved(inv[i].log, k)[2]

\* C3: the phrases reported by a dispatch that returns a result on non-empty
\* text are exactly the phrases of the table (as it was when matching began)
\* whose lower-cased form is a substring of the lower-cased text, in the
\* table's order, none omitted and none twice; overlapping phrases are all
\* reported.
C3_ReportedAreExactlyTheMatches ==
    \A i \in InvIds :
        (Returned(i) /\ Truthy(inv[i].readings)) =>
            /\ inv[i].result.kind = "mapping"
            /\ VoiceCommands(inv[i].result) = MatchList(inv[i].keys, inv[i].readings.text)
            /\ NoDuplicates(VoiceCommands(inv[i].result))
            /\ inv[i].epoch = nreconf => inv[i].keys = Keys(commands)

\* C3 witness: "a" and "ab" both reported, in table order, for the text "Ab".
C3_Witness ==
    \E i \in InvIds :
        /\ Returned(i)
        /\ inv[i].readings = Str(<<"A", "b">>)
        /\ VoiceCommands(inv[i].result) = <<P_a, P_ab>>


\* The two NoCommand statuses (lines 146 and 162) and the CommandsHeard one
NoCommandStatuses == {"no voice command heard", "no voice commands heard"}
CommandsHeardStatus == "voice commands heard"

NoAudio(log) == \A j \in 1..Len(log) : log[j].kind \notin AudioKinds

\* The text the request asks to evaluate is null or empty: an explicit empty
\* force_command, or a listen request whose reading has no text
EvaluatedTextEmpty(i) ==
    \/ inv[i].request.force_command = Str(<<>>)
    \/ /\ inv[i].request.force_command = None
       /\ inv[i].request.listen_for_command
       /\ ~Truthy(inv[i].readings)

\* C4: every dispatch whose evaluated text is null or empty, from an
\* explicit force_command or from a reading lacking `heard`, returns the
\* NoCommand outcome with no matched phrases, and issues no actuator move
\* and no audio cue.
C4_EmptyTextGivesNoCommand ==
    \A i \in InvIds :
        (Returned(i) /\ EvaluatedTextEmpty(i)) =>
            /\ inv[i].result.kind = "mapping"
            /\ inv[i].result.status \in NoCommandStatuses
            /\ VoiceCommands(inv[i].result) = <<>>
            /\ AllMoves(inv[i].log) = <<>>
            /\ NoAudio(inv[i].log)

\* C5: every dispatch that does not end with a propagated actuator failure
\* returns a structured result carrying a status; a request with neither
\* force_command nor listen_for_command returns "no voice command heard".
C5_AlwaysAStructuredResult ==
    \A i \in InvIds :
        /\ Failed(i) => inv[i].failure = "ActuationError"
        /\ Returned(i) =>
              /\ inv[i].result.kind = "mapping"
              /\ "status" \in inv[i].result.keys
        /\ (/\ Returned(i)
            /\ inv[i].request.force_command = None
            /\ ~inv[i].request.listen_for_command) =>
              inv[i].result.status = "no voice command heard"

\* Every move issued for the phrase at position k has returned
MovesReturned(log, k) ==
    \A j \in 1..Len(log) :
        (log[j].kind = "move" /\ log[j].k = k) =>
            \E h \in (j + 1)..Len(log) : log[h].kind = "move_done" /\ log[h].k = k

\* C6: a dispatch that returns a result on non-empty text has status
\* CommandsHeard iff at least one phrase matched; then the result carries the
\* matched phrases and the text, and every phrase in the list has had its
\* whole angle sequence executed and its cue awaited; with no match the
\* status is NoCommand, the text is still reported and no move was issued.
C6_StatusReflectsMatches ==
    \A i \in InvIds :
        (Returned(i) /\ Truthy(inv[i].readings)) =>
            LET r == inv[i]
                res == r.result
                matched == MatchList(r.keys, r.readings.text)
            IN
            /\ res.kind = "mapping"
            /\ res.status = CommandsHeardStatus <=> Len(matched) > 0
            /\ res.status # CommandsHeardStatus => res.status \in NoCommandStatuses
            /\ res.heard = r.readings
            /\ "heard" \in res.keys
            /\ Len(matched) > 0 =>
                  /\ res.keys = {"status", "voice_commands", "heard"}
                  /\ res.voice_commands = matched
                  /\ \A k \in 1..Len(r.keys) :
                        (\E n \in 1..Len(res.voice_commands) : res.voice_commands[n] = r.keys[k]) =>
                            /\ Joined(r.log, k)
                            /\ Len(AnglesMoved(r.log, k)) > 0
                            /\ MovesReturned(r.log, k)
                            /\ r.epoch = nreconf =>
                                  AnglesMoved(r.log, k) = Lookup(commands, r.keys[k])
            /\ Len(matched) = 0 =>
                  /\ res.keys = {"status", "heard"}
                  /\ AllMoves(r.log) = <<>>
                  /\ NoAudio(r.log)

\* C6 witness: a dispatch returned CommandsHeard with exactly one phrase.
C6_Witness ==
    \E i \in InvIds :
        /\ Returned(i)
        /\ inv[i].result.status = CommandsHeardStatus
        /\ Len(inv[i].result.voice_commands) = 1

\* C7: if an actuator move fails, no further angle of that phrase and no
\* angle of a later phrase is commanded in that invocation, the failure
\* reaches the caller instead of a result, and the failed phrase is not
\* reported as matched.
C7_MoveFailureAbortsAndPropagates ==
    \A i \in InvIds :
        \A j \in 1..Len(inv[i].log) :
            inv[i].log[j].kind = "move_failed" =>
                /\ j = Len(inv[i].log)
                /\ Failed(i)
                /\ inv[i].failure = "ActuationError"
                /\ inv[i].result = Pending
                /\ \A n \in 1..Len(inv[i].commands_heard) :
                      inv[i].commands_heard[n] # inv[i].keys[inv[i].log[j].k]

\* C7 witness: a move of the first matching phrase failed while a later
\* phrase of the table matches the text too.
C7_Witness ==
    \E i \in InvIds :
        /\ Failed(i)
        /\ inv[i].failure = "ActuationError"
        /\ \E k \in 1..Len(inv[i].keys) :
              /\ k > inv[i].ki
              /\ MatchesIgnoringCase(inv[i].keys[k], inv[i].readings.text)

AudioFailureKinds == {"set_volume_failed", "play_failed"}

\* C8: a failure of either audio step becomes a structured error outcome of
\* play_sound and does not propagate: the phrase's angle sequence has been
\* executed in full, the phrase is reported as matched, and the later
\* matching phrases are still processed.
C8_AudioFailureIsAbsorbed ==
    \A i \in InvIds :
        LET r == inv[i]
            L == r.log
        IN
        \A j \in 1..Len(L) :
            L[j].kind \in AudioFailureKinds =>
                LET k == L[j].k IN
                /\ r.failure # "AudioError"
                /\ Joined(L, k)
                /\ \E n \in 1..Len(r.commands_heard) : r.commands_heard[n] = r.keys[k]
                /\ r.ki > k
                /\ (\A h \in 1..Len(L) : L[h].k = k => L[h].kind # "sound_joined" \/ h > j)
                /\ Len(AnglesMoved(L, k)) > 0
                /\ MovesReturned(L, k)
                /\ r.epoch = nreconf => AnglesMoved(L, k) = Lookup(commands, r.keys[k])
                /\ (L[Len(L)].kind = "sound_joined" /\ L[Len(L)].k = k) =>
                      r.sound_status = "error"
                /\ Returned(i) =>
                      /\ VoiceCommands(r.result) = MatchList(r.keys, r.readings.text)
                      /\ \E n \in 1..Len(VoiceCommands(r.result)) :
                            VoiceCommands(r.result)[n] = r.keys[k]

\* C8 witness: the volume step failed for the first phrase and the dispatch
\* went on to report two phrases.
C8_Witness ==
    \E i \in InvIds :
        /\ Returned(i)
        /\ Len(VoiceCommands(inv[i].result)) = 2
        /\ \E j \in 1..Len(inv[i].log) :
              inv[i].log[j].kind = "set_volume_failed" /\ inv[i].log[j].k = 1

\* C9: several matching phrases are processed one at a time in matcher
\* order: every move and the cue of phrase k are complete before the cue or
\* any move of phrase k+1 begins.
C9_PhrasesOneAtATime ==
    \A i \in InvIds :
        LET L == inv[i].log IN
        \A j1, j2 \in 1..Len(L) :
            j1 < j2 =>
                /\ L[j1].k <= L[j2].k
                /\ (L[j1].k < L[j2].k /\ L[j1].k >= 1) =>
                      /\ \E h \in j1..(j2 - 1) :
                            L[h].kind = "sound_joined" /\ L[h].k = L[j1].k
                      /\ L[j1].kind = "move" =>
                            \E a \in (j1 + 1)..(j2 - 1) :
                                L[a].kind = "move_done" /\ L[a].k = L[j1].k
                      /\ L[j1].kind \in {"set_volume", "set_volume_failed", "play", "play_failed"} =>
                            L[j2].kind # "sound_joined" \/ L[j2].k # L[j1].k

\* C9 witness: a move of a second matching phrase has been issued.
C9_Witness ==
    \E i \in InvIds :
        \E j1, j2 \in 1..Len(inv[i].log) :
            /\ inv[i].log[j1].kind = "move"
            /\ inv[i].log[j2].kind = "move"
            /\ inv[i].log[j1].k < inv[i].log[j2].k


\* Every phrase of table d has at least one angle, each a whole number of
\* degrees in [0, 180]
TableInRange(d) ==
    \A n \in 1..Len(d) :
        /\ Len(d[n].angles) > 0
        /\ \A j \in 1..Len(d[n].angles) :
              /\ d[n].angles[j] \in Int
              /\ MIN_ANGLE <= d[n].angles[j]
              /\ d[n].angles[j] <= MAX_ANGLE

\* No move has been commanded with an angle outside [0, 180]
MovesInRange ==
    \A i \in InvIds :
        \A j \in 1..Len(inv[i].log) :
            inv[i].log[j].kind = "move" =>
                MIN_ANGLE <= inv[i].log[j].arg /\ inv[i].log[j].arg <= MAX_ANGLE

\* Table d holds, phrase by phrase and in order, the raw angles of the
\* commands struct cs with their fractional part dropped
TruncatedFrom(cs, d) ==
    /\ Len(d) = Len(cs)
    /\ \A n \in 1..Len(d) :
          /\ d[n].phrase = cs[n].phrase
          /\ Len(d[n].angles) = Len(list_values(cs[n].value))
          /\ \A j \in 1..Len(d[n].angles) :
                LET raw == number_value(list_values(cs[n].value)[j]) IN
                /\ d[n].angles[j] * Denom <= raw
                /\ raw < (d[n].angles[j] + 1) * Denom

\* C10: after any sequence of configurations that each passed
\* validate_config before reconfigure, every phrase of the command table
\* has a non-empty angle sequence, every stored angle is an integer in
\* [0, 180] (a reconfiguration stores the validated angles truncated), and
\* no actuator move is commanded with an angle outside [0, 180].
C10_TableAnglesInRange ==
    /\ [](TableInRange(commands) /\ MovesInRange)
    /\ [][nreconf' # nreconf => TruncatedFrom(validated.config.commands, commands')]_vars

\* C10 witness: after a reconfiguration the table holds an angle that is the
\* truncation of a fractional configured value, and a move to it was issued.
C10_Witness ==
    /\ nreconf >= 1
    /\ TruncatedFrom(validated.config.commands, commands)
    /\ \E n \in 1..Len(commands) :
          \E j \in 1..Len(commands[n].angles) :
              /\ number_value(list_values(validated.config.commands[n].value)[j])
                    > commands[n].angles[j] * Denom
              /\ \E i \in InvIds :
                    /\ inv[i].epoch = nreconf
                    /\ \E h \in 1..Len(inv[i].log) :
                          /\ inv[i].log[h].kind = "move"
                          /\ inv[i].log[h].arg = commands[n].angles[j]
                          /\ inv[i].keys[inv[i].log[h].k] = commands[n].phrase


\* What the configuration contract rejects: a required field is missing, a
\* phrase has no angle, or an angle is not a number or lies outside [0, 180]
ContractRejects(c) ==
    \/ c.fields # AllFields
    \/ \E n \in 1..Len(c.commands) :
          \/ c.commands[n].value.kind # "list"
          \/ Len(c.commands[n].value.values) = 0
          \/ \E j \in 1..Len(c.commands[n].value.values) :
                LET v == c.commands[n].value.values[j] IN
                \/ v.kind # "number"
                \/ v.num < MIN_ANGLE * Denom
                \/ v.num > MAX_ANGLE * Denom

\* C11: validate_config fails if and only if a required field is missing,
\* or some phrase has an empty angle list, or some angle element is
\* non-numeric or outside [0, 180]; on success it returns the sensor and
\* servo references as the required dependencies. (validate_config is a
\* classmethod that assigns nothing: the ValidateConfig step changes only
\* the record of its own outcome.)
C11_ValidationFailsIffInvalid ==
    /\ ~validated.outcome.ok <=> ContractRejects(validated.config)
    /\ validated.outcome.ok =>
          /\ validated.outcome.required
                = <<validated.config.sensor, validated.config.servo>>
          /\ validated.outcome.optional = <<>>


\* The coroutine i has a phrase of its keys view in hand: it passed line 150
\* for it and has not yet gone on to the next one
PhraseInHand(r) == r.ki \in 1..Len(r.keys)

\* The phrases of a configuration's commands struct
ConfiguredPhrases(cs) == { cs[n].phrase : n \in 1..Len(cs) }

\* C12, in the specification's wording: once a reconfiguration has completed, no dispatch, one
\* already in flight included, matches or acts on a phrase that is absent
\* from the new configuration: every step a dispatch takes with a phrase in
\* hand finds that phrase in the current table.
C12_NoDispatchOnAbsentPhrase ==
    [][\A i \in InvIds :
          (inv'[i] # inv[i] /\ PhraseInHand(inv'[i]))
              => HasKey(commands', inv'[i].keys[inv'[i].ki])]_vars

\* C12, as the code provides it: a reconfiguration leaves in the table exactly the phrases of
\* the new configuration, and no dispatch that begins matching after the
\* reconfiguration completed matches, acts on or reports a phrase that is
\* absent from the new configuration.
C12_LaterDispatchesUseNewTable ==
    /\ [][nreconf' # nreconf =>
             { commands'[n].phrase : n \in 1..Len(commands') }
                 = ConfiguredPhrases(validated.config.commands)]_vars
    /\ [][\A i \in InvIds :
             (inv'[i] # inv[i] /\ inv'[i].epoch = nreconf' /\ PhraseInHand(inv'[i]))
                 => HasKey(commands', inv'[i].keys[inv'[i].ki])]_vars
    /\ [](\A i \in InvIds :
             (Returned(i) /\ inv[i].epoch = nreconf) =>
                 \A j \in 1..Len(VoiceCommands(inv[i].result)) :
                     HasKey(commands, VoiceCommands(inv[i].result)[j]))

\* A dispatch begun after a reconfiguration evaluated a text that contains
\* the phrase "a", which the new configuration does not have, and reported
\* other phrases only
C12_Witness ==
    /\ nreconf >= 1
    /\ ~HasKey(commands, P_a)
    /\ \E i \in InvIds :
          /\ Returned(i)
          /\ inv[i].epoch = nreconf
          /\ inv[i].readings.some
          /\ PhraseMatches(P_a, inv[i].readings.text)
          /\ Len(VoiceCommands(inv[i].result)) >= 1
          /\ \A j \in 1..Len(VoiceCommands(inv[i].result)) :
                VoiceCommands(inv[i].result)[j] # P_a


\* C13: a dispatch that overlaps a reconfiguration sees the command table as
\* entirely the old or entirely the new one: the angle sequence it looks up
\* for a matched phrase comes from the table whose phrases it iterates, so
\* the lookup never fails and never yields another table's angles.
C13_TableSeenWhole ==
    \A i \in InvIds :
        /\ inv[i].failure # "KeyError"
        /\ PhraseInHand(inv[i]) =>
              inv[i].angles = Lookup(inv[i].dict, inv[i].keys[inv[i].ki])


\* Some audio command was run for the phrase at position k
CueRun(log, k) == \E h \in 1..Len(log) : log[h].k = k /\ log[h].kind \in AudioKinds

\* C14: the audio cue is run and its outcome captured whatever the outcome
\* of the movement loop, also when a move fails: a dispatch that ended on a
\* failed move of a phrase ran the audio commands for that phrase and holds
\* the cue's outcome.
C14_CueRunAlsoWhenMoveFails ==
    \A i \in InvIds :
        inv[i].failure = "ActuationError" =>
            /\ CueRun(inv[i].log, inv[i].ki)
            /\ inv[i].sound_promise = "done"


\* The positions of the log at which the sensor's readings were fetched
Fetches(log) == { h \in 1..Len(log) : log[h].kind = "get_readings" }

\* C15: when the request supplies a text as force_command the sensor is
\* never consulted, also when listen_for_command is set as well; when the
\* request only asks to listen, the readings are fetched exactly once,
\* before anything else, and their `heard` entry is the text evaluated.
C15_ForcedTextSkipsSensor ==
    \A i \in InvIds :
        LET r == inv[i] IN
        /\ r.request.force_command.some => Fetches(r.log) = {}
        /\ (~r.request.force_command.some /\ r.request.listen_for_command
              /\ r.pc # "idle") => Fetches(r.log) = {1}


\* C16: after every reconfiguration the sensing and actuation bindings are
\* the resources named by the new configuration's sensor and servo fields,
\* whatever the dependency map contains; no binding of a previous
\* configuration survives.
C16_BindingsFollowConfiguration ==
    [][nreconf' # nreconf =>
          /\ sensor' = validated.config.sensor
          /\ servo' = validated.config.servo]_vars

\* C20: every phrase stored in the command table after a validated
\* (re)configuration is a non-empty string, so no configured phrase matches
\* every non-empty text.
C20_NoEmptyPhraseStored ==
    \A n \in 1..Len(commands) :
        /\ Len(commands[n].phrase) > 0
        /\ \E t \in Texts : ~PhraseMatches(commands[n].phrase, t)


\* The moves the servos received from the coroutine in slot i, in order
MovesOf(i) ==
    LET Of(m) == m.inv = i
        ms == SelectSeq(moves, Of)
    IN  [j \in 1..Len(ms) |-> [target |-> ms[j].target, angle |-> ms[j].angle]]

\* The moves the coroutine in slot i issued, in order
IssuedBy(i) ==
    LET ms == AllMoves(inv[i].log)
    IN  [j \in 1..Len(ms) |-> [target |-> ms[j].target, angle |-> ms[j].arg]]

RECURSIVE ConfiguredAngles(_, _)
\* The angle sequences table d configures for the phrases ps, one after the
\* other
ConfiguredAngles(d, ps) ==
    IF Len(ps) = 0 THEN <<>>
    ELSE Lookup(d, Head(ps)) \o ConfiguredAngles(d, Tail(ps))

\* C19: dispatch invocations are not serialized against each other (the
\* witness shows a move of one between two consecutive moves of the other),
\* while the moves of each single invocation reach the actuator in that
\* invocation's own configured order: the servo receives from an invocation
\* exactly the moves it issued, in the order it issued them, and their
\* angles are a prefix of the angle sequences of its matched phrases.
C19_OwnOrderKept ==
    \A i \in InvIds :
        /\ MovesOf(i) = IssuedBy(i)
        /\ IsPrefix([j \in 1..Len(MovesOf(i)) |-> MovesOf(i)[j].angle],
                    ConfiguredAngles(inv[i].dict,
                                     MatchList(inv[i].keys, inv[i].readings.text)))

\* The servo received a move of another invocation between the two moves,
\* 90 and 0, of one invocation's phrase "a"
C19_Witness ==
    /\ HasKey(commands, P_a)
    /\ \E p, q, r \in 1..Len(moves) :
          /\ p < q /\ q < r
          /\ moves[p].inv = moves[r].inv
          /\ moves[q].inv # moves[p].inv
          /\ \A h \in (p + 1)..(r - 1) : moves[h].inv # moves[p].inv
          /\ moves[p].angle = 90
          /\ moves[r].angle = 0


\* The coroutine in slot i has returned or raised
Terminal(i) == inv[i].pc \in {"done", "failed"}

\* What the collaborators answered to the coroutine r: the sensor's reading
\* (or its failure), and for every move and audio command whether it failed
Responses(r) ==
    LET IsOutcome(e) == e.kind \in {"move_done", "move_failed"} \cup AudioKinds
        es == SelectSeq(r.log, IsOutcome)
    IN  [sensor_raised |-> r.failure = "SensorError",
         text |-> r.readings,
         failed |-> [j \in 1..Len(es) |->
                        es[j].kind \in {"move_failed"} \cup AudioFailureKinds]]

\* The actuator and audio commands the coroutine r issued, in order
CommandsIssued(r) ==
    LET IsCommand(e) == e.kind \in {"move"} \cup AudioKinds
        es == SelectSeq(r.log, IsCommand)
    IN  [j \in 1..Len(es) |->
            [to |-> es[j].target,
             what |-> CASE es[j].kind = "move" -> "move"
                        [] es[j].kind \in {"set_volume", "set_volume_failed"} -> "set_volume"
                        [] OTHER -> "play",
             arg |-> es[j].arg]]

\* C17: a dispatch invocation leaves the command table and both collaborator
\* bindings unchanged, whether it returns or fails, and carries no state
\* over: two invocations with the same request, the same table and the same
\* collaborator responses end with the same result (or failure) and have
\* issued the same sequence of actuator and audio commands.
C17_DispatchKeepsNoState ==
    /\ [][inv' # inv => UNCHANGED <<commands, sensor, servo>>]_vars
    /\ [](\A i, j \in InvIds :
             (/\ Terminal(i) /\ Terminal(j)
              /\ inv[i].request = inv[j].request
              /\ inv[i].dict = inv[j].dict
              /\ Responses(inv[i]) = Responses(inv[j]))
             => /\ inv[i].result = inv[j].result
                /\ inv[i].failure = inv[j].failure
                /\ CommandsIssued(inv[i]) = CommandsIssued(inv[j]))

\* Two invocations of one listen request heard the same text, got the same
\* responses and both reported a phrase after moving the servo
C17_Witness ==
    \E i, j \in InvIds :
        /\ i # j
        /\ Returned(i) /\ Returned(j)
        /\ inv[i].request = Request(None, TRUE)
        /\ inv[j].request = inv[i].request
        /\ Responses(inv[i]) = Responses(inv[j])
        /\ Len(VoiceCommands(inv[i].result)) >= 1
        /\ Len(CommandsIssued(inv[j])) >= 3
        /\ commands = inv[i].dict


====
